---- MODULE Spec2Model ----
(***************************************************************************)
(* Cross-file structural analysis of code-maester: declaration extraction, *)
(* module resolution, the dependency graph, the cycle search, the          *)
(* unused-export detector and the orchestrator that merges their findings. *)
(*                                                                         *)
(* A source file is a path, a language tag, a flag telling whether acorn   *)
(* accepts its text, and its lines; each line holds one declaration shape  *)
(* (an export, an import, a Python def ...).  Line i of the text is stmts[i].*)
(* Paths and module references are records of their segments, so that      *)
(* path.resolve, path.normalize and the extension-stripping pattern are    *)
(* computed, not assumed.                                                  *)
(***************************************************************************)
EXTENDS Integers, Sequences, FiniteSets, TLC

\* ---------------------------------------------------------------- bounds
\* Largest number of files in an analysed project.
MaxFiles == 3
\* Largest number of declaration lines in one file of an export project.
MaxStmts == 2
\* Largest number of import lines in one file of a resolution project.
MaxRefs == 1
\* Largest number of import lines in the whole of an import-graph project.
MaxEdges == 4
\* Largest number of analyzeProject calls made on one file list.
MaxRuns == 2
\* Most cycle paths in a list given to the deduplication on its own.
MaxCycles == 2

\* ------------------------------------------------------- sequence helpers
Range(s) == {s[i] : i \in 1..Len(s)}

RECURSIVE SeqsUpTo(_, _)
\* All sequences over S of length at most n.
SeqsUpTo(S, n) ==
  IF n = 0 THEN {<<>>}
  ELSE LET shorter == SeqsUpTo(S, n - 1)
       IN  shorter \cup {Append(s, x) : s \in {t \in shorter : Len(t) = n - 1}, x \in S}

IsInjective(s) == \A i, j \in 1..Len(s) : s[i] = s[j] => i = j

\* Position of the first occurrence of x in s, 0 when absent (indexOf + 1).
RECURSIVE IndexOf(_, _)
IndexOf(s, x) ==
  IF s = <<>> THEN 0
  ELSE IF Head(s) = x THEN 1
  ELSE LET r == IndexOf(Tail(s), x) IN IF r = 0 THEN 0 ELSE r + 1

\* s without its repeated elements, first occurrences kept (insertion order of a Set).
RECURSIVE Dedup(_)
Dedup(s) ==
  IF s = <<>> THEN <<>>
  ELSE LET front == Dedup(SubSeq(s, 1, Len(s) - 1))
           last  == s[Len(s)]
       IN  IF last \in Range(front) THEN front ELSE Append(front, last)

RECURSIVE Flatten(_)
Flatten(ss) == IF ss = <<>> THEN <<>> ELSE Head(ss) \o Flatten(Tail(ss))

\* ------------------------------------------------------------------ paths
\* A path string: absolute or not, a leading "./", leading "../" segments,
\* directory segments, and a base name made of an optional leading dot, a stem
\* and an extension ("" when the base name has none).
MkPath(abs, cur, up, dirs, dot, stem, ext) ==
  [abs |-> abs, cur |-> cur, up |-> up, dirs |-> dirs, dot |-> dot, stem |-> stem, ext |-> ext]

AbsFile(dirs, stem, ext) == MkPath(TRUE, FALSE, 0, dirs, FALSE, stem, ext)

\* The extensions the resolver strips: /\.(js|ts|jsx|tsx|py)$/.
KnownExts == {".js", ".ts", ".jsx", ".tsx", ".py"}

\* p.replace(/\.(js|ts|jsx|tsx|py)$/, "")
StripExt(p) == IF p.ext \in KnownExts THEN [p EXCEPT !.ext = ""] ELSE p

\* path.normalize: "./x" becomes "x"; the other parts are already canonical.
PathNormalize(p) == [p EXCEPT !.cur = FALSE]

\* path.dirname of an absolute file path: its directory segments.
PathDirname(p) == p.dirs

\* path.resolve(dir, dep) for an absolute dir: climb dep.up levels, then descend.
PathResolve(dir, dep) ==
  LET keep == IF dep.up >= Len(dir) THEN <<>> ELSE SubSeq(dir, 1, Len(dir) - dep.up)
  IN  MkPath(TRUE, FALSE, 0, keep \o dep.dirs, dep.dot, dep.stem, dep.ext)

\* dep.startsWith("."): "./x", "../x" and ".x" do, "pkg" does not.
StartsWithDot(dep) == dep.cur \/ dep.up > 0 \/ (dep.dirs = <<>> /\ dep.dot)

\* Module-path literals as written in an import.
RelRef(up, dirs, stem, ext) == MkPath(FALSE, up = 0, up, dirs, FALSE, stem, ext)
PkgRef(stem) == MkPath(FALSE, FALSE, 0, <<>>, FALSE, stem, "")
PyRef(stem) == MkPath(FALSE, FALSE, 0, <<>>, TRUE, stem, "")
NoRef == MkPath(FALSE, FALSE, 0, <<>>, FALSE, "", "")

\* ------------------------------------------------------------- statements
\* kinds: "export"        export function/class/const NAME          (typ says which)
\*        "exportList"    export { NAME }
\*        "exportFrom"    export { NAME } from 'REF'
\*        "defaultAnon"   export default <expression>
\*        "defaultNamed"  export default function NAME() {}
\*        "import"        import { NAME } from 'REF'
\*        "importDefault" import NAME from 'REF'
\*        "importStar"    import * as NAME from 'REF'
\*        "require"       const NAME = require('REF')
\*        "requireValue"  require(42);  a call whose argument is a literal, not a string
\*        "pyDef"         def NAME(...):  /  class NAME:            (typ says which)
\*        "pyAll"         __all__ = ['NAME']
\*        "pyFrom"        from REF import NAME
Stmt(kind, name, typ, ref) == [kind |-> kind, name |-> name, typ |-> typ, ref |-> ref]

JsLanguages == {"javascript", "typescript"}

File(path, language, parses, stmts) ==
  [path |-> path, language |-> language, parses |-> parses, stmts |-> stmts]

\* ------------------------------------------------------ export extraction
ExportRecord(name, line, type, isDefault) ==
  [name |-> name, line |-> line, type |-> type, isDefault |-> isDefault]

\* Names beginning with an underscore (Python's private convention).
PrivateNames == {"_h"}

\* What the parse-tree walk of extractExports pushes for the declaration on line i.
WalkExports(st, i) ==
  CASE st.kind = "export" -> <<ExportRecord(st.name, i, st.typ, FALSE)>>
    [] st.kind \in {"exportList", "exportFrom"} -> <<ExportRecord(st.name, i, "named", FALSE)>>
    [] st.kind = "defaultAnon" -> <<ExportRecord("default", i, "default", TRUE)>>
    [] st.kind = "defaultNamed" -> <<ExportRecord(st.name, i, "default", TRUE)>>
    [] OTHER -> <<>>

\* What the line patterns of extractExportsRegex push for line i.
RegexExports(st, i) ==
  CASE st.kind = "export" -> <<ExportRecord(st.name, i, st.typ, FALSE)>>
    [] st.kind \in {"exportList", "exportFrom"} -> <<ExportRecord(st.name, i, "named", FALSE)>>
    [] st.kind \in {"defaultAnon", "defaultNamed"} -> <<ExportRecord("default", i, "default", TRUE)>>
    [] OTHER -> <<>>

extractExportsRegex(stmts) == Flatten([i \in 1..Len(stmts) |-> RegexExports(stmts[i], i)])

\* lines.findIndex((l) => l.includes(name)) + 1, or 1 when no line holds the name.
PyLineOf(stmts, name) ==
  LET hits == {i \in 1..Len(stmts) : stmts[i].name = name}
  IN  IF hits = {} THEN 1 ELSE CHOOSE i \in hits : \A j \in hits : i <= j

\* The names of the first __all__ list of the text, then the top-level defs.
extractExportsPython(stmts) ==
  LET alls == {i \in 1..Len(stmts) : stmts[i].kind = "pyAll"}
      first == CHOOSE i \in alls : \A j \in alls : i <= j
      fromAll == IF alls = {} THEN <<>>
                 ELSE <<ExportRecord(stmts[first].name, PyLineOf(stmts, stmts[first].name),
                                     "public", FALSE)>>
      fromDef(i) == IF stmts[i].kind = "pyDef" /\ stmts[i].name \notin PrivateNames
                    THEN <<ExportRecord(stmts[i].name, i, stmts[i].typ, FALSE)>>
                    ELSE <<>>
  IN  fromAll \o Flatten([i \in 1..Len(stmts) |-> fromDef(i)])

extractExports(file) ==
  IF file.language \in JsLanguages
  THEN IF file.parses
       THEN Flatten([i \in 1..Len(file.stmts) |-> WalkExports(file.stmts[i], i)])
       ELSE extractExportsRegex(file.stmts)
  ELSE IF file.language = "python" THEN extractExportsPython(file.stmts)
  ELSE <<>>

\* ------------------------------------------------------ import extraction
\* The names the parse-tree walk of extractImports adds for one declaration.
WalkImports(st) ==
  IF st.kind \in {"import", "importDefault", "importStar", "require"} THEN {st.name} ELSE {}

\* The walk stores a parent link on every child before descending and then
\* follows that link like any other key, so it returns only for a tree without
\* child nodes; otherwise it recurses until the call stack overflows.
WalkReturns(stmts) == stmts = <<>>

\* The line patterns know the braces of a named import and an identifier right
\* after the word import; "import * as NAME" matches neither.
extractImportsRegex(stmts) ==
  {stmts[i].name : i \in {j \in 1..Len(stmts) :
                            stmts[j].kind \in {"import", "importDefault", "require"}}}

extractImportsPython(stmts) ==
  {stmts[i].name : i \in {j \in 1..Len(stmts) : stmts[j].kind = "pyFrom"}}

\* The overflow is a RangeError inside the try block: the catch takes the fallback.
extractImports(file) ==
  IF file.language \in JsLanguages
  THEN IF file.parses /\ WalkReturns(file.stmts)
       THEN UNION {WalkImports(file.stmts[i]) : i \in 1..Len(file.stmts)}
       ELSE extractImportsRegex(file.stmts)
  ELSE IF file.language = "python" THEN extractImportsPython(file.stmts)
  ELSE {}

\* -------------------------------------------------- dependency extraction
\* The module-path literals of the text, in line order.
SourceLiterals(stmts, kinds) ==
  Flatten([i \in 1..Len(stmts) |->
             IF stmts[i].kind \in kinds THEN <<stmts[i].ref>> ELSE <<>>])

JsDepKinds == {"import", "importDefault", "importStar", "require", "exportFrom"}

\* extractDependenciesRegex without the startsWith(".") filter.
extractDependenciesRegex_unfiltered(stmts) == SourceLiterals(stmts, JsDepKinds)

\* No path.resolve here: the literals are returned as written.
extractDependenciesRegex(stmts) ==
  SelectSeq(SourceLiterals(stmts, JsDepKinds), StartsWithDot)

\* /from\s+(\.[\w.]*)\s+import/ matches dot-prefixed modules only.
extractDependenciesPython(stmts) ==
  SelectSeq(SourceLiterals(stmts, {"pyFrom"}), LAMBDA d : d.dot)

\* require(<literal that is not a string>): the walk pushes the literal's value,
\* and the filter after the try block calls dep.startsWith on it: a TypeError
\* that nothing catches.  The line patterns of the fallback do not match it.
extractDependenciesThrows(file) ==
  /\ file.language \in JsLanguages
  /\ file.parses
  /\ \E i \in 1..Len(file.stmts) : file.stmts[i].kind = "requireValue"

extractDependencies(file) ==
  IF file.language \in JsLanguages
  THEN IF file.parses
       THEN LET local == SelectSeq(SourceLiterals(file.stmts, JsDepKinds), StartsWithDot)
            IN  [i \in 1..Len(local) |-> PathResolve(PathDirname(file.path), local[i])]
       ELSE extractDependenciesRegex(file.stmts)
  ELSE IF file.language = "python" THEN extractDependenciesPython(file.stmts)
  ELSE <<>>

\* ------------------------------------------------------------------ issues
\* One StructuralIssue; the fields a rule does not set are "" / 0 / <<>>.
\* (message and suggestion are texts derived from exportName and cycle.)
UnusedExportIssue(loc, exportName) ==
  [type |-> "structural", severity |-> "warning", rule |-> "unused-export",
   file |-> loc.file, line |-> loc.line, exportName |-> exportName,
   exportType |-> loc.type, cycle |-> <<>>, cycleIndex |-> 0]

\* CircularIssue reported on the file whose import closes the cycle.
CircularIssue_onImporter(cycle, index) ==
  [type |-> "structural", severity |-> "error", rule |-> "circular-dependency",
   file |-> cycle[Len(cycle) - 1], line |-> 1, exportName |-> "", exportType |-> "",
   cycle |-> cycle, cycleIndex |-> index]

\* CircularIssue reported at the severity of the other rule.
CircularIssue_warning(cycle, index) ==
  [type |-> "structural", severity |-> "warning", rule |-> "circular-dependency",
   file |-> cycle[1], line |-> 1, exportName |-> "", exportType |-> "",
   cycle |-> cycle, cycleIndex |-> index]

CircularIssue(cycle, index) ==
  [type |-> "structural", severity |-> "error", rule |-> "circular-dependency",
   file |-> cycle[1], line |-> 1, exportName |-> "", exportType |-> "",
   cycle |-> cycle, cycleIndex |-> index]

\* --------------------------------------------------- unused-export detect
\* Pass 1: every export of every file, with its file, in file then line order.
ExportLocations(fs) ==
  Flatten([i \in 1..Len(fs) |->
             LET exps == extractExports(fs[i])
             IN  [k \in 1..Len(exps) |->
                    [name |-> exps[k].name, file |-> fs[i].path, line |-> exps[k].line,
                     type |-> exps[k].type, isDefault |-> exps[k].isDefault]]])

\* AllImports counting only the imports that can add a dependency edge
\* (module path beginning with a dot): usage scoped to the graph.
AllImports_edgeScoped(fs) ==
  UNION {{fs[i].stmts[k].name :
            k \in {j \in 1..Len(fs[i].stmts) :
                     /\ fs[i].stmts[j].kind \in {"import", "importDefault", "require", "pyFrom"}
                     /\ StartsWithDot(fs[i].stmts[j].ref)}} : i \in 1..Len(fs)}

\* Pass 2: the names imported by any file.
AllImports(fs) == UNION {extractImports(fs[i]) : i \in 1..Len(fs)}

\* UnusedExports_detect reporting only the first location of an unused name.
UnusedExports_detect_firstSite(fs) ==
  LET locs == ExportLocations(fs)
      allImports == UNION {extractImports(fs[i]) : i \in 1..Len(fs)}
      names == Dedup([k \in 1..Len(locs) |-> locs[k].name])
      issuesOf(name) ==
        IF name = "default" \/ name \in allImports THEN <<>>
        ELSE LET mine == SelectSeq(locs, LAMBDA l : l.name = name)
             IN  <<UnusedExportIssue(mine[1], name)>>
  IN  Flatten([k \in 1..Len(names) |-> issuesOf(names[k])])

\* UnusedExports_detect with passes 2 and 3 folded into pass 1: an export is
\* checked against the imports of the files up to and including its own.
UnusedExports_detect_onePass(fs) ==
  LET issuesOf(i) ==
        LET exps == extractExports(fs[i])
            seen == UNION {extractImports(fs[j]) : j \in 1..i}
            one(k) == IF exps[k].name = "default" \/ exps[k].name \in seen THEN <<>>
                      ELSE <<UnusedExportIssue([name |-> exps[k].name, file |-> fs[i].path,
                                                line |-> exps[k].line, type |-> exps[k].type,
                                                isDefault |-> exps[k].isDefault], exps[k].name)>>
        IN  Flatten([k \in 1..Len(exps) |-> one(k)])
  IN  Flatten([i \in 1..Len(fs) |-> issuesOf(i)])

\* Pass 3: the keys of the allExports map in insertion order; for each key other
\* than "default" that no file imports, one issue per location.
UnusedExports_detect(fs) ==
  LET locs == ExportLocations(fs)
      allImports == AllImports(fs)
      names == Dedup([k \in 1..Len(locs) |-> locs[k].name])
      issuesOf(name) ==
        IF name = "default" \/ name \in allImports THEN <<>>
        ELSE LET mine == SelectSeq(locs, LAMBDA l : l.name = name)
             IN  [k \in 1..Len(mine) |-> UnusedExportIssue(mine[k], name)]
  IN  Flatten([k \in 1..Len(names) |-> issuesOf(names[k])])

\* -------------------------------------------------------- dependency graph
\* The file the resolver picks for a dependency: files.find with the three tests.
Matches(f, normalizedDep) ==
  LET fPath == PathNormalize(f.path)
  IN  \/ fPath = normalizedDep
      \/ StripExt(fPath) = StripExt(normalizedDep)
      \/ fPath = StripExt(normalizedDep)

ResolveDep(fs, dep) ==
  LET normalizedDep == PathNormalize(dep)
      hits == {i \in 1..Len(fs) : Matches(fs[i], normalizedDep)}
  IN  IF hits = {} THEN normalizedDep
      ELSE PathNormalize(fs[CHOOSE i \in hits : \A j \in hits : i <= j].path)

\* The targets one file adds to its adjacency set, in order.
EdgesOf(fs, file) ==
  LET deps == extractDependencies(file)
  IN  [k \in 1..Len(deps) |-> ResolveDep(fs, deps[k])]

\* Map<path, Set<path>> as a sequence of entries in insertion order.
buildDependencyGraph(fs) ==
  LET keys == Dedup([i \in 1..Len(fs) |-> PathNormalize(fs[i].path)])
      adjOf(key) ==
        Dedup(Flatten([i \in 1..Len(fs) |->
                         IF PathNormalize(fs[i].path) = key THEN EdgesOf(fs, fs[i]) ELSE <<>>]))
  IN  [k \in 1..Len(keys) |-> [node |-> keys[k], adj |-> adjOf(keys[k])]]

GraphKeys(g) == [k \in 1..Len(g) |-> g[k].node]

\* graph.get(node) || new Set()
Neighbors(g, node) ==
  LET hits == {k \in 1..Len(g) : g[k].node = node}
  IN  IF hits = {} THEN <<>> ELSE g[CHOOSE k \in hits : TRUE].adj

\* ------------------------------------------------------- cycle reporting
\* Signature taken from the first file of the path alone.
Signature_firstFile(cycle) == cycle[1]

\* [...cycle].sort().join("|"): equal exactly when the two paths hold the same
\* entries the same number of times.
Signature(cycle) ==
  [n \in Range(cycle) |-> Cardinality({i \in 1..Len(cycle) : cycle[i] = n})]

\* The cycles whose signature no earlier cycle has.
UniqueCycles(cs) ==
  LET keep == {i \in 1..Len(cs) : \A j \in 1..(i - 1) : Signature(cs[j]) # Signature(cs[i])}
      RECURSIVE Pick(_)
      Pick(i) == IF i > Len(cs) THEN <<>>
                 ELSE (IF i \in keep THEN <<cs[i]>> ELSE <<>>) \o Pick(i + 1)
  IN  Pick(1)

CircularDeps_report(cs) ==
  LET uniqueCycles == UniqueCycles(cs)
  IN  [k \in 1..Len(uniqueCycles) |-> CircularIssue(uniqueCycles[k], k)]

\* ------------------------------------------------------------- the sort
SeverityOrder(sev) == CASE sev = "critical" -> 0 [] sev = "error" -> 1 [] sev = "warning" -> 2

\* Alphabetical rank of the strings that occur in paths.
StrRank(s) ==
  CASE s = "" -> 0 [] s = ".js" -> 1 [] s = ".py" -> 2 [] s = ".ts" -> 3
    [] s = "a" -> 4 [] s = "b" -> 5 [] s = "c" -> 6 [] s = "d" -> 7
    [] s = "e" -> 8 [] s = "p" -> 9 [] s = "q" -> 10 [] s = "zz" -> 11 [] OTHER -> 12

PathKey(p) == [i \in 1..Len(p.dirs) |-> StrRank(p.dirs[i])] \o <<StrRank(p.stem), StrRank(p.ext)>>

RECURSIVE LexCompare(_, _)
\* Negative, zero or positive, like a.localeCompare(b) on the segment ranks.
LexCompare(a, b) ==
  IF a = <<>> /\ b = <<>> THEN 0
  ELSE IF a = <<>> THEN -1
  ELSE IF b = <<>> THEN 1
  ELSE IF Head(a) # Head(b) THEN Head(a) - Head(b)
  ELSE LexCompare(Tail(a), Tail(b))

\* CompareIssues without the file-path tie-break.
CompareIssues_severityOnly(a, b) ==
  SeverityOrder(a.severity) - SeverityOrder(b.severity)

\* The comparator of analyzeProject's sort.
CompareIssues(a, b) ==
  LET severityDiff == SeverityOrder(a.severity) - SeverityOrder(b.severity)
  IN  IF severityDiff # 0 THEN severityDiff ELSE LexCompare(PathKey(a.file), PathKey(b.file))

RECURSIVE StableSort(_)
\* Array.prototype.sort is stable: equal elements keep their order.
StableSort(s) ==
  IF s = <<>> THEN <<>>
  ELSE LET front == StableSort(SubSeq(s, 1, Len(s) - 1))
           x == s[Len(s)]
           after == {i \in 1..Len(front) : CompareIssues(front[i], x) > 0}
           pos == IF after = {} THEN Len(front) + 1 ELSE CHOOSE i \in after : \A j \in after : i <= j
       IN  SubSeq(front, 1, pos - 1) \o <<x>> \o SubSeq(front, pos, Len(front))

\* ------------------------------------------------------------------ state
VARIABLES
  files,           \* the ordered list handed to the cross-file analyzeProject
  pc,              \* where the analysis stands: "unused", "graph", "dfs", "sort", "done",
                   \* "returned" (the report is out) or "thrown" (the promise rejected)
  unusedIssues,    \* result of the unused-export detect
  graph,           \* result of buildDependencyGraph
  visited,         \* detectCycles: nodes dfs has been entered for
  recursionStack,  \* detectCycles: nodes on the current path (a Set)
  pathStack,       \* detectCycles: the current path
  frames,          \* detectCycles: the pending dfs calls, each with its unread neighbours
  keysLeft,        \* detectCycles: graph keys the outer loop has not reached
  cycles,          \* detectCycles: the cycles pushed so far
  order,           \* history: the nodes in the order dfs was entered for them
  circularIssues,  \* result of the circular-dependency detect
  structural,      \* the merged, sorted list the cross-file analyzeProject returns
  reports,         \* history: the project reports returned so far, one per run
  inputs,          \* the file paths given to the public analyzeProject, each with what
                   \* is on disk under it
  reads,           \* the indices of inputs whose fs.readFile has resolved, in the
                   \* order the reads completed
  exitCode,        \* the code the command line left with, "none" while it runs
  globalConfig,    \* the weights of the module-level configuration object
  score            \* outcome of the last analyze(): "none", "scored" or "thrown"

vars == <<files, pc, unusedIssues, graph, visited, recursionStack, pathStack, frames,
          keysLeft, cycles, order, circularIssues, structural, reports,
          inputs, reads, exitCode, globalConfig, score>>

\* What the cross-file analysis itself never touches.
envVars == <<inputs, reads, exitCode, globalConfig, score>>

dfsVars == <<visited, recursionStack, pathStack, frames, keysLeft, cycles, order>>

\* ----------------------------------------------------------------- scoring
\* Weights are counted in tenths: 0.3 is 3, and a sum of 1 is WeightUnit.
WeightUnit == 10

WeightKeys == {"bug", "security", "complexity", "redundancy", "lint"}

DEFAULT_WEIGHTS ==
  [k \in WeightKeys |->
     CASE k \in {"bug", "security"} -> 3 [] k = "complexity" -> 2 [] OTHER -> 1]

\* ------------------------------------------------------------ the projects
ProjectDir == <<"p">>
StemSeq == <<"a", "b", "c", "d", "e">>

\* Injective sequences over S of length at most n.
InjSeqsUpTo(S, n) == {s \in SeqsUpTo(S, n) : IsInjective(s)}

ImportOf(name, ref) == Stmt("import", name, "", ref)

\* The import lists a file of an n-file project can have: the project's files
\* and, below MaxFiles files, one path that is not in the project, in any
\* order, none twice.
ImportChoices ==
  [n \in 0..MaxFiles |->
     InjSeqsUpTo({StemSeq[i] : i \in 1..(IF n < MaxFiles THEN n + 1 ELSE n)}, n)]

\* Import-graph projects: n parsable files of one directory (none for n = 0)
\* whose lines are imports of one another, of themselves or of the absent
\* path, MaxEdges lines in all at most.
RECURSIVE ImportLists(_, _, _)
ImportLists(k, n, budget) ==
  IF k > n THEN {<<>>}
  ELSE UNION {{<<adj>> \o rest : rest \in ImportLists(k + 1, n, budget - Len(adj))}
              : adj \in {a \in ImportChoices[n] : Len(a) <= budget}}

GraphProject(lists) ==
  [i \in 1..Len(lists) |->
     File(AbsFile(ProjectDir, StemSeq[i], ".js"), "javascript", TRUE,
          [k \in 1..Len(lists[i]) |-> ImportOf("f", RelRef(0, <<>>, lists[i][k], ""))])]

InitAnalysis ==
  /\ pc = "unused"
  /\ unusedIssues = <<>>
  /\ graph = <<>>
  /\ visited = {}
  /\ recursionStack = {}
  /\ pathStack = <<>>
  /\ frames = <<>>
  /\ keysLeft = <<>>
  /\ cycles = <<>>
  /\ order = <<>>
  /\ circularIssues = <<>>
  /\ structural = <<>>
  /\ reports = <<>>
  /\ inputs = <<>>
  /\ reads = <<>>
  /\ exitCode = "none"
  /\ globalConfig = [weights |-> DEFAULT_WEIGHTS]
  /\ score = "none"

InitCycles ==
  /\ \E n \in 0..MaxFiles : \E lists \in ImportLists(1, n, MaxEdges) : files = GraphProject(lists)
  /\ InitAnalysis

\* Export projects: one or two files, each JavaScript (parsable or not) or
\* Python, whose lines are exports of f, default exports and imports of f from
\* a project file, from a package or from a path that matches no file, or a
\* namespace import named f; a Python
\* file can also define the class g and the private function _h.  The
\* first file has up to MaxStmts lines, the second one line less.
JsExportShapes ==
  {Stmt("export", "f", "function", NoRef),
   Stmt("defaultAnon", "", "", NoRef),
   Stmt("defaultNamed", "f", "function", NoRef)}
  \cup {ImportOf("f", r) : r \in {RelRef(0, <<>>, "a", ""), PkgRef("pkg"), RelRef(0, <<>>, "zz", "")}}
  \cup {Stmt("importStar", "f", "", RelRef(0, <<>>, "a", ""))}

PyExportShapes ==
  {Stmt("pyDef", "f", "function", NoRef),
   Stmt("pyDef", "_h", "function", NoRef),
   Stmt("pyDef", "g", "class", NoRef),
   Stmt("pyAll", "f", "", NoRef),
   Stmt("pyFrom", "f", "", PyRef("a")),
   Stmt("pyFrom", "f", "", PkgRef("pkg"))}

ExportFileVariants(stem, maxLines) ==
  {File(AbsFile(ProjectDir, stem, ".js"), "javascript", parses, stmts) :
     parses \in BOOLEAN, stmts \in SeqsUpTo(JsExportShapes, maxLines)}
  \cup {File(AbsFile(ProjectDir, stem, ".py"), "python", TRUE, stmts) :
          stmts \in SeqsUpTo(PyExportShapes, maxLines)}

InitExports ==
  /\ \/ \E fa \in ExportFileVariants("a", MaxStmts) : files = <<fa>>
     \/ \E fa \in ExportFileVariants("a", MaxStmts) :
          \E fb \in ExportFileVariants("b", MaxStmts - 1) : files = <<fa, fb>>
  /\ InitAnalysis

\* Resolution projects: one or two distinct files out of two directories and
\* three extensions, in either order, each with at most MaxRefs imports whose
\* module path is relative (with or without extension, possibly climbing to the
\* parent directory) or a bare package name; a JavaScript line can also be a
\* require call whose argument is not a string.
LanguageOf(ext) ==
  CASE ext = ".py" -> "python" [] ext = ".ts" -> "typescript" [] OTHER -> "javascript"

ResolutionPaths ==
  {AbsFile(<<"p">>, "a", ".js"), AbsFile(<<"p">>, "a", ".ts"), AbsFile(<<"p">>, "b", ".js"),
   AbsFile(<<"q">>, "b", ".js"), AbsFile(<<"p">>, "a", ".py"), AbsFile(<<"p">>, "b", ".py")}

JsRefs ==
  {RelRef(0, <<>>, "a", ""), RelRef(0, <<>>, "a", ".js"), RelRef(0, <<>>, "b", ""),
   RelRef(1, <<"p">>, "a", ""), PkgRef("a")}

PyRefs == {PyRef("a"), PyRef("b"), PkgRef("a")}

ResolutionFileVariants(path) ==
  IF LanguageOf(path.ext) = "python"
  THEN {File(path, "python", TRUE, stmts) :
          stmts \in SeqsUpTo({Stmt("pyFrom", "f", "", r) : r \in PyRefs}, MaxRefs)}
  ELSE {File(path, LanguageOf(path.ext), parses, stmts) :
          parses \in BOOLEAN,
          stmts \in SeqsUpTo({ImportOf("f", r) : r \in JsRefs}
                               \cup {Stmt("requireValue", "", "", NoRef)}, MaxRefs)}

ResolutionPathLists ==
  {<<pa>> : pa \in ResolutionPaths}
  \cup {<<qq[1], qq[2]>> : qq \in {rr \in ResolutionPaths \X ResolutionPaths : rr[1] # rr[2]}}

InitResolve ==
  /\ \E paths \in ResolutionPathLists :
        \/ /\ Len(paths) = 1
           /\ \E fa \in ResolutionFileVariants(paths[1]) : files = <<fa>>
        \/ /\ Len(paths) = 2
           /\ \E fa \in ResolutionFileVariants(paths[1]), fb \in ResolutionFileVariants(paths[2]) :
                 files = <<fa, fb>>
  /\ InitAnalysis

\* Merge projects: none, one or both of two parsable JavaScript files, in either
\* order, whose lines export f (which nothing imports) or import g from one of
\* the two; so a report can hold unused-export and circular-dependency issues
\* of both files.
MergePaths == {AbsFile(ProjectDir, "a", ".js"), AbsFile(ProjectDir, "b", ".js")}

MergeShapes ==
  {Stmt("export", "f", "function", NoRef),
   ImportOf("g", RelRef(0, <<>>, "a", "")),
   ImportOf("g", RelRef(0, <<>>, "b", ""))}

MergeFileVariants(path) ==
  {File(path, "javascript", TRUE, stmts) : stmts \in SeqsUpTo(MergeShapes, MaxStmts)}

InitMerge ==
  /\ \/ files = <<>>
     \/ \E pa \in MergePaths : \E fa \in MergeFileVariants(pa) : files = <<fa>>
     \/ \E pa \in MergePaths : \E pb \in MergePaths \ {pa} :
          \E fa \in MergeFileVariants(pa), fb \in MergeFileVariants(pb) : files = <<fa, fb>>
  /\ InitAnalysis

\* ------------------------------------------------------------- operations
\* analyzeProject, first await: the unused-export detect over all files.
DetectUnusedExports ==
  /\ pc = "unused"
  /\ unusedIssues' = UnusedExports_detect(files)
  /\ pc' = "graph"
  /\ UNCHANGED <<envVars, files, reports, graph, dfsVars, circularIssues, structural>>

\* BuildGraph for a graph builder that reads files[0].path before its loop: with
\* no file it throws.
BuildGraph_readsFirstFile ==
  /\ pc = "graph"
  /\ IF files = <<>> \/ \E i \in 1..Len(files) : extractDependenciesThrows(files[i])
     THEN /\ pc' = "thrown"
          /\ UNCHANGED <<graph, keysLeft>>
     ELSE LET built == buildDependencyGraph(files)
          IN  /\ graph' = built
              /\ keysLeft' = GraphKeys(built)
              /\ pc' = "dfs"
  /\ UNCHANGED <<envVars, files, reports, unusedIssues, visited, recursionStack, pathStack, frames, cycles,
                 order, circularIssues, structural>>

\* Circular detect: build the graph; detectCycles starts its loop over graph.keys().
\* An exception of the extraction rejects the detect and, through the awaits,
\* both analyzeProject calls: no report is returned.
BuildGraph ==
  /\ pc = "graph"
  /\ IF \E i \in 1..Len(files) : extractDependenciesThrows(files[i])
     THEN /\ pc' = "thrown"
          /\ UNCHANGED <<graph, keysLeft>>
     ELSE LET built == buildDependencyGraph(files)
          IN  /\ graph' = built
              /\ keysLeft' = GraphKeys(built)
              /\ pc' = "dfs"
  /\ UNCHANGED <<envVars, files, reports, unusedIssues, visited, recursionStack, pathStack, frames, cycles,
                 order, circularIssues, structural>>

\* Entry of dfs(node): mark, put on the stack, start reading its neighbours.
DfsEnter(node, f) ==
  /\ visited' = visited \cup {node}
  /\ recursionStack' = recursionStack \cup {node}
  /\ pathStack' = Append(pathStack, node)
  /\ frames' = Append(f, [node |-> node, rest |-> Neighbors(graph, node)])
  /\ order' = Append(order, node)

\* for (const node of graph.keys()) if (!visited.has(node)) dfs(node)
DfsNextKey ==
  /\ pc = "dfs" /\ frames = <<>> /\ keysLeft # <<>>
  /\ keysLeft' = Tail(keysLeft)
  /\ IF Head(keysLeft) \notin visited
     THEN DfsEnter(Head(keysLeft), frames)
     ELSE UNCHANGED <<visited, recursionStack, pathStack, frames, order>>
  /\ UNCHANGED <<envVars, files, reports, pc, unusedIssues, graph, cycles, circularIssues, structural>>

TopFrame == frames[Len(frames)]
\* The pending calls once the running one has taken its next neighbour.
Advanced == [frames EXCEPT ![Len(frames)].rest = Tail(@)]

\* !visited.has(neighbor): the recursive call (it returns false, so the loop goes on).
DfsVisitNeighbor ==
  /\ pc = "dfs" /\ frames # <<>> /\ TopFrame.rest # <<>>
  /\ Head(TopFrame.rest) \notin visited
  /\ DfsEnter(Head(TopFrame.rest), Advanced)
  /\ UNCHANGED <<envVars, files, reports, pc, unusedIssues, graph, keysLeft, cycles, circularIssues, structural>>

\* DfsFoundCycle without the slice from cycleStart: the whole path is pushed.
DfsFoundCycle_wholePath ==
  /\ pc = "dfs" /\ frames # <<>> /\ TopFrame.rest # <<>>
  /\ Head(TopFrame.rest) \in visited
  /\ Head(TopFrame.rest) \in recursionStack
  /\ cycles' = Append(cycles, Append(pathStack, Head(TopFrame.rest)))
  /\ frames' = Advanced
  /\ UNCHANGED <<envVars, files, reports, pc, unusedIssues, graph, visited, recursionStack, pathStack, keysLeft,
                 order, circularIssues, structural>>

\* DfsFoundCycle without cycle.push(neighbor): the path is left open.
DfsFoundCycle_open ==
  /\ pc = "dfs" /\ frames # <<>> /\ TopFrame.rest # <<>>
  /\ Head(TopFrame.rest) \in visited
  /\ Head(TopFrame.rest) \in recursionStack
  /\ LET cycleStart == IndexOf(pathStack, Head(TopFrame.rest))
     IN  cycles' = Append(cycles, SubSeq(pathStack, cycleStart, Len(pathStack)))
  /\ frames' = Advanced
  /\ UNCHANGED <<envVars, files, reports, pc, unusedIssues, graph, visited, recursionStack, pathStack, keysLeft,
                 order, circularIssues, structural>>

\* DfsFoundCycle that does not report an edge from a file to itself.
DfsFoundCycle_ignoresSelf ==
  /\ pc = "dfs" /\ frames # <<>> /\ TopFrame.rest # <<>>
  /\ Head(TopFrame.rest) \in visited
  /\ Head(TopFrame.rest) \in recursionStack
  /\ LET neighbor == Head(TopFrame.rest)
         cycleStart == IndexOf(pathStack, neighbor)
     IN  cycles' = IF neighbor = TopFrame.node THEN cycles
                   ELSE Append(cycles, Append(SubSeq(pathStack, cycleStart, Len(pathStack)), neighbor))
  /\ frames' = Advanced
  /\ UNCHANGED <<envVars, files, reports, pc, unusedIssues, graph, visited, recursionStack, pathStack, keysLeft,
                 order, circularIssues, structural>>

\* recursionStack.has(neighbor): the path from the neighbour on, closed, is a cycle.
DfsFoundCycle ==
  /\ pc = "dfs" /\ frames # <<>> /\ TopFrame.rest # <<>>
  /\ Head(TopFrame.rest) \in visited
  /\ Head(TopFrame.rest) \in recursionStack
  /\ LET neighbor == Head(TopFrame.rest)
         cycleStart == IndexOf(pathStack, neighbor)
     IN  cycles' = Append(cycles, Append(SubSeq(pathStack, cycleStart, Len(pathStack)), neighbor))
  /\ frames' = Advanced
  /\ UNCHANGED <<envVars, files, reports, pc, unusedIssues, graph, visited, recursionStack, pathStack, keysLeft,
                 order, circularIssues, structural>>

\* DfsSkipSettled with the else-branch taken for every visited neighbour: a
\* settled neighbour is reported as if it were on the stack (indexOf gives -1,
\* slice(-1) the last path entry).
DfsSkipSettled_reports ==
  /\ pc = "dfs" /\ frames # <<>> /\ TopFrame.rest # <<>>
  /\ Head(TopFrame.rest) \in visited
  /\ Head(TopFrame.rest) \notin recursionStack
  /\ cycles' = Append(cycles, <<TopFrame.node, Head(TopFrame.rest)>>)
  /\ frames' = Advanced
  /\ UNCHANGED <<envVars, files, reports, pc, unusedIssues, graph, visited, recursionStack, pathStack, keysLeft,
                 order, circularIssues, structural>>

\* DfsSkipSettled with a loop that does not move past the settled neighbour.
DfsSkipSettled_stuck ==
  /\ pc = "dfs" /\ frames # <<>> /\ TopFrame.rest # <<>>
  /\ Head(TopFrame.rest) \in visited
  /\ Head(TopFrame.rest) \notin recursionStack
  /\ UNCHANGED vars

\* A visited neighbour that is no longer on the stack: nothing happens.
DfsSkipSettled ==
  /\ pc = "dfs" /\ frames # <<>> /\ TopFrame.rest # <<>>
  /\ Head(TopFrame.rest) \in visited
  /\ Head(TopFrame.rest) \notin recursionStack
  /\ frames' = Advanced
  /\ UNCHANGED <<envVars, files, reports, pc, unusedIssues, graph, visited, recursionStack, pathStack, keysLeft,
                 cycles, order, circularIssues, structural>>

\* DfsReturn without recursionStack.delete(node).
DfsReturn_keepsOnStack ==
  /\ pc = "dfs" /\ frames # <<>> /\ TopFrame.rest = <<>>
  /\ pathStack' = SubSeq(pathStack, 1, Len(pathStack) - 1)
  /\ frames' = SubSeq(frames, 1, Len(frames) - 1)
  /\ UNCHANGED <<envVars, files, reports, pc, unusedIssues, graph, visited, recursionStack, keysLeft,
                 cycles, order, circularIssues, structural>>

\* End of the neighbour loop: pop the path, leave the stack, return false.
DfsReturn ==
  /\ pc = "dfs" /\ frames # <<>> /\ TopFrame.rest = <<>>
  /\ pathStack' = SubSeq(pathStack, 1, Len(pathStack) - 1)
  /\ recursionStack' = recursionStack \ {TopFrame.node}
  /\ frames' = SubSeq(frames, 1, Len(frames) - 1)
  /\ UNCHANGED <<envVars, files, reports, pc, unusedIssues, graph, visited, keysLeft, cycles, order,
                 circularIssues, structural>>

\* detectCycles has returned: deduplicate by signature and report.
ReportCycles ==
  /\ pc = "dfs" /\ frames = <<>> /\ keysLeft = <<>>
  /\ circularIssues' = CircularDeps_report(cycles)
  /\ pc' = "sort"
  /\ UNCHANGED <<envVars, files, reports, unusedIssues, graph, dfsVars, structural>>

\* analyzeProject: concatenate the two lists, sort, return.
analyzeProject ==
  /\ pc = "sort"
  /\ structural' = StableSort(unusedIssues \o circularIssues)
  /\ pc' = "done"
  /\ UNCHANGED <<envVars, files, reports, unusedIssues, graph, dfsVars, circularIssues>>

\* ProjectAnalysis with totalIssues counting the warnings only.
ProjectAnalysis_warningTotal(fs, issues) ==
  [filesAnalyzed |-> Len(fs),
   structural |-> issues,
   summary |-> [unusedExports |-> Len(SelectSeq(issues, LAMBDA i : i.rule = "unused-export")),
                circularDependencies |->
                  Len(SelectSeq(issues, LAMBDA i : i.rule = "circular-dependency")),
                totalIssues |-> Len(SelectSeq(issues, LAMBDA i : i.severity = "warning"))]]

\* The report object of the public analyzeProject: the counts are filters over
\* the structural list.
ProjectAnalysis(fs, issues) ==
  [filesAnalyzed |-> Len(fs),
   structural |-> issues,
   summary |-> [unusedExports |-> Len(SelectSeq(issues, LAMBDA i : i.rule = "unused-export")),
                circularDependencies |->
                  Len(SelectSeq(issues, LAMBDA i : i.rule = "circular-dependency")),
                totalIssues |-> Len(issues)]]

\* The public analyzeProject, after the cross-file module has returned.
analyzeProject_report ==
  /\ pc = "done"
  /\ reports' = Append(reports, ProjectAnalysis(files, structural))
  /\ pc' = "returned"
  /\ UNCHANGED <<envVars, files, unusedIssues, graph, dfsVars, circularIssues, structural>>

\* Rerun with the visited set kept from the previous call, as a module-level
\* collection would be.
Rerun_sharedVisited ==
  /\ pc = "returned" /\ Len(reports) < MaxRuns
  /\ pc' = "unused"
  /\ unusedIssues' = <<>> /\ graph' = <<>>
  /\ recursionStack' = {} /\ pathStack' = <<>> /\ frames' = <<>>
  /\ keysLeft' = <<>> /\ cycles' = <<>> /\ order' = <<>>
  /\ circularIssues' = <<>> /\ structural' = <<>>
  /\ UNCHANGED <<envVars, files, reports, visited>>

\* Another call of analyzeProject on the same file list.  Every collection of
\* the previous call was a local of the function that filled it, and the modules
\* keep no state of their own: the call starts from fresh, empty ones.
Rerun ==
  /\ pc = "returned" /\ Len(reports) < MaxRuns
  /\ pc' = "unused"
  /\ unusedIssues' = <<>> /\ graph' = <<>>
  /\ visited' = {} /\ recursionStack' = {} /\ pathStack' = <<>> /\ frames' = <<>>
  /\ keysLeft' = <<>> /\ cycles' = <<>> /\ order' = <<>>
  /\ circularIssues' = <<>> /\ structural' = <<>>
  /\ UNCHANGED <<envVars, files, reports>>

Next ==
  \/ DetectUnusedExports
  \/ BuildGraph
  \/ DfsNextKey
  \/ DfsVisitNeighbor
  \/ DfsFoundCycle
  \/ DfsSkipSettled
  \/ DfsReturn
  \/ ReportCycles
  \/ analyzeProject
  \/ analyzeProject_report

SpecCycles == InitCycles /\ [][Next]_vars
SpecExports == InitExports /\ [][Next]_vars
SpecResolve == InitResolve /\ [][Next]_vars

\* The steps of detectCycles and the report that follows its return.  They run
\* on one thread to completion: a step that can be taken is taken.
CircularDetectStep ==
  DfsNextKey \/ DfsVisitNeighbor \/ DfsFoundCycle \/ DfsSkipSettled \/ DfsReturn \/ ReportCycles
SpecCyclesFair == SpecCycles /\ WF_vars(CircularDetectStep)

\* Several calls in a row on the same file list.
NextRuns == Next \/ Rerun
SpecMerge == InitMerge /\ [][NextRuns]_vars

\* ------------------------------------------------- the command line's run
\* What the command line's project mode starts from: the matched paths, each
\* with the text on disk under it and whether reading it succeeds.  No path,
\* one path or two distinct paths in either order.
DiskEntry(file, readable) == [file |-> file, readable |-> readable]

InitProject ==
  /\ \/ inputs = <<>>
     \/ \E pa \in MergePaths : \E fa \in MergeFileVariants(pa) : \E ra \in BOOLEAN :
          inputs = <<DiskEntry(fa, ra)>>
     \/ \E pa \in MergePaths : \E pb \in MergePaths \ {pa} :
          \E fa \in MergeFileVariants(pa), fb \in MergeFileVariants(pb) :
            \E ra \in BOOLEAN, rb \in BOOLEAN :
              inputs = <<DiskEntry(fa, ra), DiskEntry(fb, rb)>>
  /\ pc = "cli"
  /\ files = <<>>
  /\ unusedIssues = <<>> /\ graph = <<>>
  /\ visited = {} /\ recursionStack = {} /\ pathStack = <<>> /\ frames = <<>>
  /\ keysLeft = <<>> /\ cycles = <<>> /\ order = <<>>
  /\ circularIssues = <<>> /\ structural = <<>>
  /\ reports = <<>>
  /\ reads = <<>>
  /\ exitCode = "none"
  /\ globalConfig = [weights |-> DEFAULT_WEIGHTS]
  /\ score = "none"

analysisVars ==
  <<unusedIssues, graph, visited, recursionStack, pathStack, frames, keysLeft, cycles,
    order, circularIssues, structural>>

\* runProject with no matched file: it leaves before any analysis.
runProject_noFiles ==
  /\ pc = "cli" /\ inputs = <<>>
  /\ exitCode' = 1
  /\ pc' = "exited"
  /\ UNCHANGED <<files, reports, inputs, reads, globalConfig, score, analysisVars>>

\* runProject calls the public analyzeProject, whose map issues one readFile
\* per path before anything is awaited.
analyzeProject_issueReads ==
  /\ pc = "cli" /\ inputs # <<>>
  /\ pc' = "read"
  /\ UNCHANGED <<files, reports, inputs, reads, exitCode, globalConfig, score, analysisVars>>

Pending == (1..Len(inputs)) \ Range(reads)

\* One readFile resolves; the reads complete in any order.
ReadResolves ==
  /\ pc = "read"
  /\ \E i \in Pending :
       /\ inputs[i].readable
       /\ reads' = Append(reads, i)
  /\ UNCHANGED <<files, pc, reports, inputs, exitCode, globalConfig, score, analysisVars>>

\* One readFile rejects.  The mapper has no try/catch, so its promise rejects,
\* Promise.all rejects with it and the await in analyzeProject throws.
ReadRejects ==
  /\ pc = "read"
  /\ \E i \in Pending : ~inputs[i].readable
  /\ pc' = "thrown"
  /\ UNCHANGED <<files, reports, inputs, reads, exitCode, globalConfig, score, analysisVars>>

\* Promise.all resolving with the results in completion order.
ReadsSettled_completionOrder ==
  /\ pc = "read"
  /\ Pending = {}
  /\ files' = [k \in 1..Len(reads) |-> inputs[reads[k]].file]
  /\ pc' = "unused"
  /\ UNCHANGED <<reports, inputs, reads, exitCode, globalConfig, score, analysisVars>>

\* Promise.all resolves once every read has: its result array is indexed like
\* the array of promises, whatever the order they resolved in.
ReadsSettled ==
  /\ pc = "read"
  /\ Pending = {}
  /\ files' = [i \in 1..Len(inputs) |-> inputs[i].file]
  /\ pc' = "unused"
  /\ UNCHANGED <<reports, inputs, reads, exitCode, globalConfig, score, analysisVars>>

\* The report is out: leave with 1 when it holds any issue at all.
runProject_exit_anyIssue ==
  /\ pc = "returned"
  /\ exitCode' = IF reports[Len(reports)].structural # <<>> THEN 1 ELSE 0
  /\ pc' = "exited"
  /\ UNCHANGED <<files, reports, inputs, reads, globalConfig, score, analysisVars>>

\* The report is out: leave with 1 when it holds an issue of severity error.
runProject_exit ==
  /\ pc = "returned"
  /\ exitCode' =
       IF SelectSeq(reports[Len(reports)].structural, LAMBDA i : i.severity = "error") # <<>>
       THEN 1 ELSE 0
  /\ pc' = "exited"
  /\ UNCHANGED <<files, reports, inputs, reads, globalConfig, score, analysisVars>>

\* analyzeProject rejected: the catch block of runProject.
runProject_catch ==
  /\ pc = "thrown"
  /\ exitCode' = 1
  /\ pc' = "exited"
  /\ UNCHANGED <<files, reports, inputs, reads, globalConfig, score, analysisVars>>

NextProject ==
  \/ Next
  \/ runProject_noFiles
  \/ analyzeProject_issueReads
  \/ ReadResolves
  \/ ReadRejects
  \/ ReadsSettled
  \/ runProject_exit
  \/ runProject_catch

SpecProject == InitProject /\ [][NextProject]_vars

\* ----------------------------------------------------------- configuration
\* The library in use with no project analysis running: calls of config() and
\* of analyze() in any order.
InitConfig ==
  /\ pc = "idle"
  /\ files = <<>>
  /\ unusedIssues = <<>> /\ graph = <<>>
  /\ visited = {} /\ recursionStack = {} /\ pathStack = <<>> /\ frames = <<>>
  /\ keysLeft = <<>> /\ cycles = <<>> /\ order = <<>>
  /\ circularIssues = <<>> /\ structural = <<>>
  /\ reports = <<>>
  /\ inputs = <<>>
  /\ reads = <<>>
  /\ exitCode = "none"
  /\ globalConfig = [weights |-> DEFAULT_WEIGHTS]
  /\ score = "none"

\* Object.values(w).reduce((a, b) => a + b, 0)
RECURSIVE SumOf(_)
SumOf(w) ==
  IF DOMAIN w = {} THEN 0
  ELSE LET k == CHOOSE x \in DOMAIN w : TRUE
       IN  w[k] + SumOf([x \in DOMAIN w \ {k} |-> w[x]])

\* The weights a caller passes: 0, a half or 1 for any non-empty choice of the
\* five keys.
WeightValues == {0, WeightUnit \div 2, WeightUnit}

WeightOptions == UNION {[K -> WeightValues] : K \in SUBSET WeightKeys \ {{}}}

\* Math.abs(sum - 1) > 0.0001, on tenths.
SumsToOne(w) == SumOf(w) = WeightUnit

\* config({ weights }): the check looks at the object passed, the assignment
\* spreads it over the weights already there.  A call whose check throws
\* assigns nothing.
config ==
  /\ pc = "idle"
  /\ \E w \in WeightOptions :
       /\ SumsToOne(w)
       /\ globalConfig' =
            [weights |-> [k \in WeightKeys |->
                            IF k \in DOMAIN w THEN w[k] ELSE globalConfig.weights[k]]]
  /\ UNCHANGED <<files, pc, reports, inputs, reads, exitCode, score, analysisVars>>

\* calculateScore(report, weights): the defaults with the weights spread over
\* them must sum to 1.
calculateScoreThrows(weights) ==
  ~SumsToOne([k \in WeightKeys |-> IF k \in DOMAIN weights THEN weights[k] ELSE DEFAULT_WEIGHTS[k]])

\* analyze(): step 7 scores with globalConfig.weights.
analyze ==
  /\ pc = "idle"
  /\ score' = IF calculateScoreThrows(globalConfig.weights) THEN "thrown" ELSE "scored"
  /\ UNCHANGED <<files, pc, reports, inputs, reads, exitCode, globalConfig, analysisVars>>

NextConfig == config \/ analyze

SpecConfig == InitConfig /\ [][NextConfig]_vars

\* ------------------------------------------------ deduplication on its own
\* The closed paths over up to three files: a path without repetition followed
\* by its first file.
ClosedPaths ==
  {Append(p, p[1]) :
     p \in InjSeqsUpTo({AbsFile(ProjectDir, StemSeq[i], ".js") : i \in 1..3}, 3) \ {<<>>}}

\* detect at the point where detectCycles has handed back a list of cycles: any
\* list of at most MaxCycles closed paths.
InitDedup ==
  /\ \E cs \in SeqsUpTo(ClosedPaths, MaxCycles) : cycles = cs
  /\ pc = "dfs"
  /\ files = <<>>
  /\ unusedIssues = <<>> /\ graph = <<>>
  /\ visited = {} /\ recursionStack = {} /\ pathStack = <<>> /\ frames = <<>>
  /\ keysLeft = <<>> /\ order = <<>>
  /\ circularIssues = <<>> /\ structural = <<>>
  /\ reports = <<>>
  /\ inputs = <<>>
  /\ reads = <<>>
  /\ exitCode = "none"
  /\ globalConfig = [weights |-> DEFAULT_WEIGHTS]
  /\ score = "none"

NextDedup == ReportCycles \/ analyzeProject \/ analyzeProject_report

SpecDedup == InitDedup /\ [][NextDedup]_vars

\* ================================================================= claims
\* ---------------------------------------------------- graph vocabulary
Nodes(g) == Range(GraphKeys(g)) \cup UNION {Range(g[k].adj) : k \in 1..Len(g)}
Edge(g, u, v) == v \in Range(Neighbors(g, u))
EdgeCount(g) == Len(Flatten([k \in 1..Len(g) |-> g[k].adj]))

\* s lists the nodes of a simple cycle: no node twice, an edge from each node
\* to the next and from the last back to the first (length 1: a self-edge).
IsSimpleCycle(g, s) ==
  /\ Len(s) >= 1
  /\ IsInjective(s)
  /\ \A i \in 1..Len(s) : Edge(g, s[i], s[(i % Len(s)) + 1])

\* The simple paths of g with at most n nodes: no node twice, an edge from each
\* node to the next.
RECURSIVE SimplePaths(_, _)
SimplePaths(g, n) ==
  IF n <= 1 THEN {<<u>> : u \in Range(GraphKeys(g))}
  ELSE LET shorter == SimplePaths(g, n - 1)
       IN  shorter \cup UNION {{Append(p, v) : v \in Range(Neighbors(g, p[Len(p)])) \ Range(p)}
                                : p \in {q \in shorter : Len(q) = n - 1}}

SimpleCycleNodeSets(g) ==
  {Range(s) : s \in {t \in SimplePaths(g, Len(g)) : IsSimpleCycle(g, t)}}

Reported == pc \in {"sort", "done", "returned"}

ReportedNodeSets == {Range(circularIssues[i].cycle) : i \in 1..Len(circularIssues)}

\* C3: cycle soundness: once the circular-dependency detect has reported, every
\* simple cycle of the dependency graph has a reported cycle with the same node set.
C3_CycleSoundness ==
  Reported => \A S \in SimpleCycleNodeSets(graph) : S \in ReportedNodeSets

\* C4: if the dependency graph has no directed cycle and no self-edge, detectCycles
\* pushes no cycle and the detect reports no circular-dependency issue.
C4_AcyclicNoFindings ==
  SimpleCycleNodeSets(graph) = {} => cycles = <<>> /\ circularIssues = <<>>

\* C4 witness: an acyclic graph with at least two edges has been traversed and reported.
C4_Witness ==
  /\ pc = "done"
  /\ EdgeCount(graph) >= 2
  /\ SimpleCycleNodeSets(graph) = {}
  /\ circularIssues = <<>>

\* C5: no two reported circular-dependency issues carry cycles over the same node set.
C5_OneFindingPerNodeSet ==
  \A i, j \in 1..Len(circularIssues) :
    Range(circularIssues[i].cycle) = Range(circularIssues[j].cycle) => i = j

\* C5 witness: a report with at least two findings whose cycles share a node.
C5_Witness ==
  /\ pc = "done"
  /\ Len(circularIssues) >= 2
  /\ Range(circularIssues[1].cycle) \cap Range(circularIssues[2].cycle) # {}

\* Two files whose mutual edges are the only cyclic edges of the graph.
OnlyMutual(g, x, y) ==
  /\ x # y
  /\ Edge(g, x, y) /\ Edge(g, y, x)
  /\ SimpleCycleNodeSets(g) = {{x, y}}

BoundBy(st) ==
  IF st.kind \in {"import", "importDefault", "importStar", "require", "pyFrom"}
  THEN {st.name} ELSE {}

\* The project-wide set of names bound by an import in any file.
ProjectBoundNames(fs) ==
  UNION {UNION {BoundBy(fs[i].stmts[k]) : k \in 1..Len(fs[i].stmts)} : i \in 1..Len(fs)}

Detected == pc # "unused"

\* Number of entries of s that satisfy the three-field test.
SiteCount(s, file, line, name, nameOf(_)) ==
  Cardinality({k \in 1..Len(s) : s[k].file = file /\ s[k].line = line /\ nameOf(s[k]) = name})

\* C1: unused-export completeness: for every exported name other than "default"
\* that no import of any file binds, the detect emits one unused-export issue
\* for each export record of each declaration site (file, line) of that name.
C1_UnusedExportCompleteness ==
  Detected =>
    LET locs == ExportLocations(files)
    IN  \A k \in 1..Len(locs) :
          locs[k].name # "default" /\ locs[k].name \notin ProjectBoundNames(files) =>
            SiteCount(unusedIssues, locs[k].file, locs[k].line, locs[k].name,
                      LAMBDA i : i.exportName)
              = SiteCount(locs, locs[k].file, locs[k].line, locs[k].name, LAMBDA l : l.name)

\* C1 witness: two files export the same name, nothing imports it, and the
\* detect has reported both declaration sites.
C1_Witness ==
  /\ pc = "done"
  /\ Len(files) = 2
  /\ ProjectBoundNames(files) = {}
  /\ \E i, j \in 1..Len(unusedIssues) :
       /\ unusedIssues[i].file # unusedIssues[j].file
       /\ unusedIssues[i].exportName = unusedIssues[j].exportName

\* C2: default exports are never flagged: no unused-export issue stems from an
\* export record created from an export default declaration, anonymous or named.
C2_DefaultNeverFlagged ==
  \A i \in 1..Len(unusedIssues) : unusedIssues[i].exportType # "default"

\* C7: usage is name-global: an export whose name is bound by an import in any
\* file is never flagged, whatever the import's module path and whether or not
\* the importing file has a dependency edge to the exporting file.
C7_NameGlobalUsage ==
  \A i \in 1..Len(unusedIssues) : unusedIssues[i].exportName \notin ProjectBoundNames(files)

\* C7 witness: one file exports f by name, the other imports f from a package or
\* an unresolvable path only, so no graph edge joins them, and f is not flagged.
C7_Witness ==
  /\ pc = "done"
  /\ Len(files) = 2
  /\ \E k \in 1..Len(files[2].stmts) : files[2].stmts[k].kind = "export"
  /\ files[1].stmts # <<>>
  /\ \A k \in 1..Len(files[1].stmts) :
       /\ files[1].stmts[k].kind = "import"
       /\ files[1].stmts[k].ref \in {PkgRef("pkg"), RelRef(0, <<>>, "zz", "")}
  /\ ~Edge(graph, files[1].path, files[2].path)
  /\ unusedIssues = <<>>

\* ------------------------------------------------- resolution vocabulary
GraphBuilt == pc \in {"dfs", "sort", "done", "returned"}

\* The module-path literals written in a file (any import form, any language).
RefsOf(file) == {file.stmts[k].ref : k \in {j \in 1..Len(file.stmts) : BoundBy(file.stmts[j]) # {}}}

\* A literal is relative when it begins with a dot.
IsRelative(ref) == ref.cur \/ ref.up > 0 \/ ref.dot

\* C8: resolution boundary: every edge of a file's adjacency set stems from a
\* relative reference of that file (it carries that reference's base name), and
\* a file adds no more edges than it has relative references; so a non-relative
\* reference adds no edge, whichever extraction path read the file.
C8_ResolutionBoundary ==
  GraphBuilt =>
    \A i \in 1..Len(files) :
      LET adj == Range(Neighbors(graph, files[i].path))
          relative == {r \in RefsOf(files[i]) : IsRelative(r)}
      IN  /\ \A t \in adj : \E r \in relative : r.stem = t.stem
          /\ Cardinality(adj) <= Cardinality(relative)

\* C8 witness: an unparsable JavaScript file and a Python file each import from
\* a bare package name only; the graph is built and neither has an edge.
C8_Witness ==
  /\ pc = "done"
  /\ Len(files) = 2
  /\ files[1].language = "javascript" /\ ~files[1].parses
  /\ files[2].language = "python"
  /\ RefsOf(files[1]) = {PkgRef("a")} /\ RefsOf(files[2]) = {PkgRef("a")}
  /\ EdgeCount(graph) = 0

\* The candidate of a relative reference: its absolute path relative to the
\* directory of the file that holds it.
Candidate(file, ref) == PathResolve(PathDirname(file.path), ref)

\* C9: every relative reference is resolved against the referencing file's
\* directory before it is matched against the file set, whichever extraction
\* path produced it: the file's adjacency set holds the match of that candidate.
C9_CandidateRelativeToFile ==
  GraphBuilt =>
    \A i \in 1..Len(files) :
      \A r \in {x \in RefsOf(files[i]) : IsRelative(x)} :
        ResolveDep(files, Candidate(files[i], r)) \in Range(Neighbors(graph, files[i].path))

\* The file set holds a file whose path is exactly the candidate.
HasExact(fs, c) == \E j \in 1..Len(fs) : PathNormalize(fs[j].path) = c

\* Resolution order as specified: the exact match if there is one, else the
\* first file that matches once known extensions are stripped, else unresolved.
OrderedTarget(fs, c) ==
  IF HasExact(fs, c) THEN c
  ELSE LET hits == {j \in 1..Len(fs) : StripExt(PathNormalize(fs[j].path)) = StripExt(c)}
       IN  IF hits = {} THEN c ELSE PathNormalize(fs[CHOOSE j \in hits : \A h \in hits : j <= h].path)

\* C10: resolution order: an edge resolves to the file whose path equals the
\* candidate whenever the file set has one, wherever it stands in the list; a
\* file that matches only after extension stripping is chosen only otherwise.
C10_ExactMatchFirst ==
  GraphBuilt =>
    \A i \in 1..Len(files) :
      LET deps == extractDependencies(files[i])
      IN  Range(Neighbors(graph, files[i].path))
            = {OrderedTarget(files, PathNormalize(deps[k])) : k \in 1..Len(deps)}

\* ------------------------------------------------ graph-content vocabulary
\* The normalized paths of the files handed to the analysis.
FilePaths(fs) == {PathNormalize(fs[i].path) : i \in 1..Len(fs)}

\* C11: every edge target of the graph that buildDependencyGraph returns, and so
\* every node the traversal enters, is the path of a file of the file set: a
\* reference that matches no file adds no edge and no node.
C11_EdgeTargetsAreFiles ==
  GraphBuilt =>
    /\ \A k \in 1..Len(graph) : Range(graph[k].adj) \subseteq FilePaths(files)
    /\ visited \subseteq FilePaths(files)

\* --------------------------------------------------- the run as a whole
\* C12: graceful degradation: for every list of file entries the analysis
\* completes without throwing, whether or not acorn accepts each text, and
\* every report it returns counts every input file.
C12_GracefulDegradation ==
  /\ pc # "thrown"
  /\ \A r \in 1..Len(reports) : reports[r].filesAnalyzed = Len(files)

\* C13: detectCycles terminates on every graph, self-edges and edges to nodes
\* without an adjacency entry included: the recursion never goes deeper than the
\* number of nodes, and a started traversal always comes to its report.
C13_DetectCyclesTerminates ==
  /\ [](Len(frames) <= Cardinality(Nodes(graph)))
  /\ (pc = "dfs") ~> (pc = "sort")

\* C13 witness: the traversal of a graph with a self-edge and an edge to a node
\* that has no adjacency entry has returned.
C13_Witness ==
  /\ pc = "sort"
  /\ \E k \in 1..Len(graph) : graph[k].node \in Range(graph[k].adj)
  /\ \E k \in 1..Len(graph) : Range(graph[k].adj) \ Range(GraphKeys(graph)) # {}

\* ------------------------------------------------------ report vocabulary
Returned == pc \in {"done", "returned"}

\* p does not come after q in the order of the sort's path comparison.
PathLeq(p, q) == LexCompare(PathKey(p), PathKey(q)) <= 0

\* C14: in the structural list analyzeProject returns, every error-severity
\* issue precedes every warning-severity issue, and among issues of equal
\* severity the reporting-file paths are in non-decreasing order.
C14_SortedBySeverityThenFile ==
  Returned =>
    \A i, j \in 1..Len(structural) :
      i < j =>
        /\ ~(structural[i].severity = "warning" /\ structural[j].severity = "error")
        /\ structural[i].severity = structural[j].severity
             => PathLeq(structural[i].file, structural[j].file)

\* C14 witness: a returned list with an error and warnings of two files that the
\* detectors had produced in another order.
C14_Witness ==
  /\ pc = "returned"
  /\ \E i \in 1..Len(structural) : structural[i].severity = "error"
  /\ \E i, j \in 1..Len(structural) :
       /\ structural[i].severity = "warning" /\ structural[j].severity = "warning"
       /\ structural[i].file # structural[j].file
  /\ structural # unusedIssues \o circularIssues
  /\ \E i, j \in 1..Len(unusedIssues) :
       i < j /\ ~PathLeq(unusedIssues[i].file, unusedIssues[j].file)

RuleCount(s, rule) == Cardinality({k \in 1..Len(s) : s[k].rule = rule})

\* C16: in every report, summary.unusedExports is the number of structural issues
\* with rule unused-export, summary.circularDependencies the number with rule
\* circular-dependency, and summary.totalIssues is the length of structural and
\* the sum of the two counts; the returned list has as many issues of each rule
\* as the detector of that rule produced.
C16_SummaryCounts ==
  /\ \A r \in 1..Len(reports) :
       LET rep == reports[r]
       IN  /\ rep.summary.unusedExports = RuleCount(rep.structural, "unused-export")
           /\ rep.summary.circularDependencies = RuleCount(rep.structural, "circular-dependency")
           /\ rep.summary.totalIssues = Len(rep.structural)
           /\ rep.summary.totalIssues
                = rep.summary.unusedExports + rep.summary.circularDependencies
  /\ pc = "returned" =>
       LET rep == reports[Len(reports)]
       IN  /\ rep.summary.unusedExports = Len(unusedIssues)
           /\ rep.summary.circularDependencies = Len(circularIssues)

\* C16 witness: a returned report with at least two unused-export issues and a
\* circular-dependency issue.
C16_Witness ==
  /\ pc = "returned"
  /\ reports[Len(reports)].summary.unusedExports >= 2
  /\ reports[Len(reports)].summary.circularDependencies >= 1

\* The report of a project without files and without issues.
EmptyReport ==
  [filesAnalyzed |-> 0,
   structural |-> <<>>,
   summary |-> [unusedExports |-> 0, circularDependencies |-> 0, totalIssues |-> 0]]

\* C17: given an empty file list, analyzeProject does not throw, does not stop
\* before it has returned, and returns a report with filesAnalyzed 0, an empty
\* structural list and the three summary counts 0.
C17_EmptyFileList ==
  files = <<>> =>
    /\ pc # "thrown"
    /\ pc # "returned" => ENABLED Next
    /\ \A r \in 1..Len(reports) : reports[r] = EmptyReport

\* C17 witness: the call on the empty list has returned its report.
C17_Witness ==
  /\ files = <<>>
  /\ pc = "returned"
  /\ Len(reports) >= 1

\* C18: every structural issue has type "structural" and one of the two rules;
\* an unused-export issue has severity warning, a circular-dependency issue
\* severity error.
C18_IssueFormat ==
  \A k \in 1..Len(structural) :
    LET issue == structural[k]
    IN  /\ issue.type = "structural"
        /\ issue.rule \in {"unused-export", "circular-dependency"}
        /\ issue.rule = "unused-export" => issue.severity = "warning"
        /\ issue.rule = "circular-dependency" => issue.severity = "error"

\* C18 witness: a returned list that holds an issue of each rule.
C18_Witness ==
  /\ pc = "returned"
  /\ \E k \in 1..Len(structural) : structural[k].rule = "unused-export"
  /\ \E k \in 1..Len(structural) : structural[k].rule = "circular-dependency"

\* C19: the cycle of every circular-dependency issue is a closed walk of the
\* dependency graph: its first and last elements are equal, each consecutive
\* pair is an edge, no other node repeats; and the issue's file is cycle[0].
C19_CycleIsClosedWalk ==
  \A k \in 1..Len(circularIssues) :
    LET c == circularIssues[k].cycle
    IN  /\ Len(c) >= 2
        /\ c[1] = c[Len(c)]
        /\ \A i \in 1..(Len(c) - 1) : Edge(graph, c[i], c[i + 1])
        /\ IsInjective(SubSeq(c, 1, Len(c) - 1))
        /\ circularIssues[k].file = c[1]

\* C19 witness: a report with a cycle through three files and a second cycle
\* that starts at another node.
C19_Witness ==
  /\ pc = "done"
  /\ \E k \in 1..Len(circularIssues) : Len(circularIssues[k].cycle) = 4
  /\ \E j, k \in 1..Len(circularIssues) : circularIssues[j].file # circularIssues[k].file

\* ------------------------------------------------- Python export vocabulary
\* The names of the explicit public-symbols list of a Python text (none when
\* the text has no __all__ assignment).
ListedNames(stmts) ==
  LET alls == {i \in 1..Len(stmts) : stmts[i].kind = "pyAll"}
  IN  IF alls = {} THEN {} ELSE {stmts[CHOOSE i \in alls : \A j \in alls : i <= j].name}

HasPublicList(stmts) == \E i \in 1..Len(stmts) : stmts[i].kind = "pyAll"

\* The top-level function and class definitions whose name has no leading underscore.
PublicDefs(stmts) ==
  {stmts[i].name : i \in {j \in 1..Len(stmts) :
                            stmts[j].kind = "pyDef" /\ stmts[j].name \notin PrivateNames}}

\* C20: for a Python file with an explicit public-symbols list the export records
\* are exactly the listed names, each recorded once; without such a list they
\* are the top-level public function and class definitions.
C20_PythonAllIsAuthoritative ==
  Detected =>
    \A i \in 1..Len(files) :
      files[i].language = "python" =>
        LET exps == extractExports(files[i])
            names == {exps[k].name : k \in 1..Len(exps)}
        IN  IF HasPublicList(files[i].stmts)
            THEN /\ names = ListedNames(files[i].stmts)
                 /\ \A n \in names : Cardinality({k \in 1..Len(exps) : exps[k].name = n}) = 1
            ELSE names = PublicDefs(files[i].stmts)

\* ----------------------------------------------------------------- C21
Readable == {i \in 1..Len(inputs) : inputs[i].readable}

\* C21: when reading one of the files given to analyzeProject fails, that file
\* is skipped: the call does not reject, and the report it returns covers the
\* files that could be read.
C21_FailedReadIsSkipped ==
  /\ pc = "thrown" => Readable = 1..Len(inputs)
  /\ reports # <<>> => reports[1].filesAnalyzed = Cardinality(Readable)

\* ----------------------------------------------------------------- C22
ErrorIssues(report) == SelectSeq(report.structural, LAMBDA i : i.severity = "error")

\* C22: once the analysis of a non-empty file set has returned its report, the
\* command line leaves with 1 when the report holds an issue of severity error
\* and with 0 otherwise.
C22_ExitCodeFollowsErrors ==
  (pc = "exited" /\ reports # <<>>) =>
    /\ inputs # <<>>
    /\ exitCode = (IF ErrorIssues(reports[1]) # <<>> THEN 1 ELSE 0)

\* A run that left with 0 after reporting warnings only.
C22_Witness ==
  /\ pc = "exited" /\ reports # <<>>
  /\ exitCode = 0
  /\ reports[1].structural # <<>>

\* ----------------------------------------------------------------- C27
AnalysisStarted == pc \in {"unused", "graph", "dfs", "sort", "done", "returned"} \/ reports # <<>>

\* C27: whatever the order the reads complete in, the cross-file analysis
\* starts only after every read has completed, and the list it is handed holds
\* the files in the order of the input paths; the report counts them all.
C27_TwoPhaseBarrier ==
  AnalysisStarted =>
    /\ Range(reads) = 1..Len(inputs)
    /\ files = [i \in 1..Len(inputs) |-> inputs[i].file]
    /\ reports # <<>> => reports[1].filesAnalyzed = Len(inputs)

\* A report returned after the second file's read completed before the first's.
C27_Witness ==
  /\ reports # <<>>
  /\ reads = <<2, 1>>
  /\ inputs[1].file.stmts # inputs[2].file.stmts

\* ----------------------------------------------------------------- C23
\* C23: after any sequence of config() calls that returned, the global weights
\* sum to 1, and no analyze() fails the weight validation of calculateScore.
C23_WeightsSumToOne ==
  /\ SumsToOne(globalConfig.weights)
  /\ score # "thrown"

\* ----------------------------------------------------------------- C24
\* 0 for a node dfs has not been entered for, 1 while it is on the recursion
\* stack, 2 once its dfs call has returned.
NodeStage(v, rs, n) == IF n \notin v THEN 0 ELSE IF n \in rs THEN 1 ELSE 2

\* C24: during detectCycles every node goes from unvisited to on-stack to
\* settled, in that order and never backwards; dfs is entered at most once per
\* node; and when detectCycles returns every node of the graph is settled and
\* the path is empty.
C24_NodeLifecycle ==
  /\ [](/\ IsInjective(order)
        /\ Range(order) = visited
        /\ Range(pathStack) = recursionStack
        /\ recursionStack \subseteq visited
        /\ Reported => /\ visited = Nodes(graph)
                       /\ recursionStack = {}
                       /\ pathStack = <<>>)
  /\ [][\A n \in Nodes(graph') :
          LET before == NodeStage(visited, recursionStack, n)
              after == NodeStage(visited', recursionStack', n)
          IN  after \in {before, before + 1}]_vars

\* detectCycles has returned after entering MaxFiles nodes and examining an
\* edge back to a node on the stack.
C24_Witness ==
  /\ pc = "sort"
  /\ Len(order) = MaxFiles
  /\ cycles # <<>>

\* ----------------------------------------------------------------- C25
\* The names the parse-tree walk collects over a whole file.
WalkedNames(stmts) == UNION {WalkImports(stmts[i]) : i \in 1..Len(stmts)}

\* C25: for a JavaScript/TypeScript file that parses, the imported names the
\* unused-export detect works with are the names collected by the parse-tree
\* walk; the line patterns are used only for a file the parser rejects.
C25_ParsedFilesUseTheWalk ==
  Detected =>
    \A i \in 1..Len(files) :
      (files[i].language \in JsLanguages /\ files[i].parses) =>
        extractImports(files[i]) = WalkedNames(files[i].stmts)

\* ----------------------------------------------------------------- C26
\* The entries of cs whose node set no earlier entry has.
FirstPerNodeSet(cs) ==
  LET keep == {i \in 1..Len(cs) : \A j \in 1..(i - 1) : Range(cs[j]) # Range(cs[i])}
  IN  [k \in 1..Cardinality(keep) |->
         cs[CHOOSE i \in keep : Cardinality({j \in keep : j <= i}) = k]]

C28_CycleIsReported ==
  (Reported /\ SimpleCycleNodeSets(graph) # {}) => circularIssues # <<>>

\* A graph whose only cycle is an edge from a file to itself, reported.
C28_Witness ==
  /\ Reported
  /\ \E n \in Nodes(graph) : SimpleCycleNodeSets(graph) = {{n}}
  /\ EdgeCount(graph) >= 2
  /\ Len(circularIssues) = 1

\* ----------------------------------------------------------------- C29
\* C29: the deduplication discards no cycle that detectCycles produced: the
\* cycles it pushed, one per edge found to lead back onto the stack, have
\* pairwise different node sets, and there is one issue for each.
C29_NoCycleDiscarded ==
  Reported =>
    /\ Len(circularIssues) = Len(cycles)
    /\ \A i, j \in 1..Len(cycles) : Range(cycles[i]) = Range(cycles[j]) => i = j
    /\ \A k \in 1..Len(cycles) : circularIssues[k].cycle = cycles[k]

\* Two cycles that start at the same file, both reported.
C29_Witness ==
  /\ Reported
  /\ Len(cycles) >= 2
  /\ cycles[1][1] = cycles[2][1]
  /\ Len(circularIssues) = Len(cycles)

\* ----------------------------------------------------------------- C30
\* The file lists with the same files in another order.
FileOrders(fs) ==
  {[i \in 1..Len(fs) |-> fs[p[i]]] :
     p \in {q \in [1..Len(fs) -> 1..Len(fs)] : \A a, b \in 1..Len(fs) : q[a] = q[b] => a = b}}

FindingSet(issues) ==
  {<<issues[k].file, issues[k].exportName, issues[k].line, issues[k].exportType>> :
     k \in 1..Len(issues)}

\* C30: the unused-export findings, as a set of (file, exportName, line,
\* exportType), are the same for every order of the input file list.
C30_FindingsIgnoreFileOrder ==
  pc = "graph" =>
    \A perm \in FileOrders(files) :
      FindingSet(UnusedExports_detect(perm)) = FindingSet(unusedIssues)

\* Two files with findings in both, listed in another order when the files are
\* swapped.
C30_Witness ==
  /\ pc = "graph"
  /\ Len(files) = 2
  /\ \E i, j \in 1..Len(unusedIssues) : unusedIssues[i].file # unusedIssues[j].file
  /\ UnusedExports_detect(<<files[2], files[1]>>) # unusedIssues

====
